---- MODULE Spec2Model ----
(***************************************************************************)
(* Model of embed_data_files.py: the PlatformIO pre-build script that      *)
(* turns each declared data file into an assembler source (.S) holding     *)
(* the file's bytes between _binary_<name>_start and _binary_<name>_end,   *)
(* and registers the generated source with the build.                      *)
(*                                                                         *)
(* Strings are sequences of atoms.  Names, paths and byte literals are     *)
(* kept character by character; the fixed directive keywords of the        *)
(* template are one atom each.                                             *)
(***************************************************************************)
EXTENDS Integers, Sequences, FiniteSets, TLC

VARIABLES data_files, disk, outputs, sources, log, idx, asm_file, pc, prev

vars == <<data_files, disk, outputs, sources, log, idx, asm_file, pc, prev>>

----------------------------------------------------------------------------
(* Bounds of the model *)

\* longest declared list
MaxFiles == 3
\* longest file content of the byte-pattern inputs
MaxLen == 33

\* bytes per .byte line (i % 16)
LineWidth == 16
\* a byte has 256 values
ByteRange == 256
\* width of the {byte:02x} field
HexWidth == 2

----------------------------------------------------------------------------
(* Strings *)

NL == "\n"

HexDigits == <<"0","1","2","3","4","5","6","7","8","9","a","b","c","d","e","f">>

RECURSIVE ToHex(_)
\* format(n, "x"): the lowercase hexadecimal digits of n, no padding
ToHex(n) ==
  IF n < 16 THEN <<HexDigits[n + 1]>>
  ELSE ToHex(n \div 16) \o <<HexDigits[(n % 16) + 1]>>

RECURSIVE ZeroPad(_, _)
ZeroPad(s, w) == IF Len(s) >= w THEN s ELSE ZeroPad(<<"0">> \o s, w)

\* the mutant of Fmt02x: the two nibbles swapped
Fmt02xSwapped(byte) ==
  <<HexDigits[(byte % 16) + 1], HexDigits[(byte \div 16) + 1]>>

\* f"{byte:02x}"
Fmt02x(byte) == ZeroPad(ToHex(byte), HexWidth)

\* f"0x{byte:02x}"
ByteLiteral(byte) == <<"0", "x">> \o Fmt02x(byte)

\* str.replace(old, new) for one-character old and new
Replace(s, old, new) == [i \in DOMAIN s |-> IF s[i] = old THEN new ELSE s[i]]

\* os.path.basename: what follows the last "/"
BaseName(path) ==
  LET slashes == {i \in DOMAIN path : path[i] = "/"}
      last == IF slashes = {} THEN 0
              ELSE CHOOSE i \in slashes : \A j \in slashes : j <= i
  IN SubSeq(path, last + 1, Len(path))

\* base_name.replace(".", "_").replace("-", "_")
SafeName(base_name) == Replace(Replace(base_name, ".", "_"), "-", "_")

\* env.subst("$BUILD_DIR")
build_dir == <<"B">>

\* os.path.join(a, b) for a relative b
PathJoin(a, b) == a \o <<"/">> \o b

\* os.path.join(build_dir, f"{base_name}.S")
AsmFile(source_file) == PathJoin(build_dir, BaseName(source_file) \o <<".", "S">>)

----------------------------------------------------------------------------
(* The emitted text *)

StartSymbol(safe_name) == <<"_binary_">> \o safe_name \o <<"_start">>
EndSymbol(safe_name) == <<"_binary_">> \o safe_name \o <<"_end">>

\* the first f.write: section, globals, alignment, start label
Header(safe_name) ==
  <<NL, "    ", ".section", " ", ".rodata.embedded", NL>>
  \o <<"    ", ".global", " ">> \o StartSymbol(safe_name) \o <<NL>>
  \o <<"    ", ".global", " ">> \o EndSymbol(safe_name) \o <<NL>>
  \o <<"    ", ".align", " ", "4", NL>>
  \o StartSymbol(safe_name) \o <<":", NL>>

\* the mutant of NeedsComma: the line-end test forgotten
NeedsCommaNoLineEnd(i, n) == i < n - 1

\* i < len(data) - 1 and (i + 1) % 16 != 0, i counted from 0
NeedsComma(i, n) == i < n - 1 /\ (i + 1) % LineWidth # 0

\* what one iteration of the enumerate loop writes for data[i], i counted from 0
ByteChunk(data, i) ==
  (IF i % LineWidth = 0 THEN <<NL, "    ", ".byte", " ">> ELSE <<>>)
  \o ByteLiteral(data[i + 1])
  \o (IF NeedsComma(i, Len(data)) THEN <<",", " ">> ELSE <<>>)

RECURSIVE DataBlock(_, _)
\* the writes of iterations 0 .. n-1 of the loop
DataBlock(data, n) ==
  IF n = 0 THEN <<>> ELSE DataBlock(data, n - 1) \o ByteChunk(data, n - 1)

\* the last f.write: the sentinel byte and the end label
Trailer(safe_name) ==
  <<NL, "    ", ".byte", " ", "0", "x", "0", "0", NL>>
  \o EndSymbol(safe_name) \o <<":", NL>>

\* the mutant of EmitText: the sentinel written only when the data does not
\* already end with a zero byte
EmitTextDedup(safe_name, data) ==
  Header(safe_name) \o DataBlock(data, Len(data))
  \o (IF Len(data) > 0 /\ data[Len(data)] = 0
      THEN <<NL>> \o EndSymbol(safe_name) \o <<":", NL>>
      ELSE Trailer(safe_name))

\* everything generate_assembly_file writes to asm_file
EmitText(safe_name, data) ==
  Header(safe_name) \o DataBlock(data, Len(data)) \o Trailer(safe_name)

----------------------------------------------------------------------------
(* The inputs: the declared list and the files under the project directory *)

\* logical paths a declared list is drawn from
PathAB == <<"d", "/", "a", ".", "b">>
PathAdashB == <<"d", "/", "a", "-", "b">>
PathOtherDirAB == <<"e", "/", "a", ".", "b">>
PathSpace == <<"c", " ", "j">>

Paths == {PathAB, PathAdashB, PathOtherDirAB, PathSpace}

\* the content each of these has when it exists
PlanData(p) ==
  CASE p = PathAB -> <<42, 123, 125>>
    [] p = PathAdashB -> <<>>
    [] p = PathOtherDirAB -> <<97, 98, 10>>
    [] OTHER -> <<255, 0>>

Missing == [exists |-> FALSE, readable |-> FALSE, data |-> <<>>]
Unreadable(d) == [exists |-> TRUE, readable |-> FALSE, data |-> d]
Readable(d) == [exists |-> TRUE, readable |-> TRUE, data |-> d]

\* the declared lists of at most MaxFiles paths
DeclaredLists == UNION {[1..n -> Paths] : n \in 1..MaxFiles}

Range(s) == {s[i] : i \in DOMAIN s}

\* first bytes of the byte-pattern contents: every length up to MaxLen occurs
\* with seed 0, and with MaxLen >= 32 consecutive bytes from each seed every
\* byte value occurs
Seeds == {0, 32, 64, 96, 128, 160, 192, 224}

\* the content seed, seed+1, ... (mod 256) of length n
Pattern(n, seed) == [i \in 1..n |-> (seed + i - 1) % ByteRange]

NoPrev == [valid |-> FALSE, outputs |-> <<>>, sources |-> <<>>]

Line(msg, arg) == [msg |-> msg, arg |-> arg]

\* print("Embedding web UI data files...")
Banner == Line("Embedding web UI data files...", <<>>)

\* the state in which the loop of one invocation starts
Start ==
  /\ log = <<Banner>>
  /\ sources = <<>>
  /\ idx = 1
  /\ asm_file = <<>>
  /\ pc = "loop"

InitPlan ==
  /\ data_files \in DeclaredLists
  /\ \E kind \in [Range(data_files) -> {"missing", "unreadable", "readable"}] :
       disk = [p \in Paths |->
                 IF p \notin Range(data_files) \/ kind[p] = "missing" THEN Missing
                 ELSE IF kind[p] = "unreadable" THEN Unreadable(PlanData(p))
                 ELSE Readable(PlanData(p))]

InitBytes ==
  /\ data_files = <<PathAB>>
  /\ \E n \in 0..MaxLen, seed \in Seeds :
       /\ n = MaxLen \/ seed = 0
       /\ disk = [p \in Paths |-> IF p = PathAB THEN Readable(Pattern(n, seed))
                                ELSE Missing]

Init ==
  /\ InitPlan \/ InitBytes
  /\ outputs = <<>>
  /\ prev = NoPrev
  /\ Start

----------------------------------------------------------------------------
(* The script: one action per step of the loop over data_files *)

InLoop == pc = "loop" /\ idx <= Len(data_files)

Current == data_files[idx]

\* the mutant of SkipMissing: a missing input raises
SkipMissingAborts ==
  /\ InLoop
  /\ ~disk[Current].exists
  /\ pc' = "aborted"
  /\ UNCHANGED <<data_files, disk, outputs, sources, log, idx, asm_file, prev>>

\* os.path.exists is false: the warning, then the next data_file
SkipMissing ==
  /\ InLoop
  /\ ~disk[Current].exists
  /\ log' = Append(log, Line("  WARNING: File not found: ", Current))
  /\ idx' = idx + 1
  /\ UNCHANGED <<data_files, disk, outputs, sources, asm_file, pc, prev>>

\* the mutant of ReadFail: the error swallowed, the loop goes on
ReadFailContinues ==
  /\ InLoop
  /\ disk[Current].exists /\ ~disk[Current].readable
  /\ idx' = idx + 1
  /\ UNCHANGED <<data_files, disk, outputs, sources, log, asm_file, pc, prev>>

\* open(..., 'rb') or f.read() raises: nothing catches it, the script ends
ReadFail ==
  /\ InLoop
  /\ disk[Current].exists /\ ~disk[Current].readable
  /\ pc' = "aborted"
  /\ UNCHANGED <<data_files, disk, outputs, sources, log, idx, asm_file, prev>>

\* the text generate_assembly_file(source_file) writes
UnitText(source_file) ==
  EmitText(SafeName(BaseName(source_file)), disk[source_file].data)

OldText(path) == IF path \in DOMAIN outputs THEN outputs[path] ELSE <<>>

\* the mutant of Generate: the output opened for appending
GenerateAppends ==
  /\ InLoop
  /\ disk[Current].exists /\ disk[Current].readable
  /\ outputs' = (AsmFile(Current) :> (OldText(AsmFile(Current)) \o UnitText(Current)))
                 @@ outputs
  /\ asm_file' = AsmFile(Current)
  /\ pc' = "generated"
  /\ UNCHANGED <<data_files, disk, sources, log, idx, prev>>

\* generate_assembly_file returns: the file is read, the output is
\* truncated and written whole, asm_file holds its path
Generate ==
  /\ InLoop
  /\ disk[Current].exists /\ disk[Current].readable
  /\ outputs' = (AsmFile(Current) :> UnitText(Current)) @@ outputs
  /\ asm_file' = AsmFile(Current)
  /\ pc' = "generated"
  /\ UNCHANGED <<data_files, disk, sources, log, idx, prev>>

\* open(asm_file, 'w') raises (the file is untouched), or a write raises
\* (the file holds some proper prefix of the text): the script ends
WriteFail ==
  /\ InLoop
  /\ disk[Current].exists /\ disk[Current].readable
  /\ \/ outputs' = outputs
     \/ \E k \in 0..(Len(UnitText(Current)) - 1) :
          outputs' = (AsmFile(Current) :> SubSeq(UnitText(Current), 1, k)) @@ outputs
  /\ pc' = "aborted"
  /\ UNCHANGED <<data_files, disk, sources, log, idx, asm_file, prev>>

\* the mutant of Register: the generated file is reported but not added
RegisterForgets ==
  /\ pc = "generated"
  /\ log' = Append(log, Line("  Generated: ", BaseName(asm_file)))
  /\ idx' = idx + 1
  /\ pc' = "loop"
  /\ UNCHANGED <<data_files, disk, outputs, sources, asm_file, prev>>

\* print Generated, env.BuildSources(build_dir, asm_file), next data_file
Register ==
  /\ pc = "generated"
  /\ log' = Append(log, Line("  Generated: ", BaseName(asm_file)))
  /\ sources' = Append(sources, asm_file)
  /\ idx' = idx + 1
  /\ pc' = "loop"
  /\ UNCHANGED <<data_files, disk, outputs, asm_file, prev>>

\* the loop is over: print("Data embedding complete.")
Complete ==
  /\ pc = "loop"
  /\ idx > Len(data_files)
  /\ log' = Append(log, Line("Data embedding complete.", <<>>))
  /\ pc' = "done"
  /\ UNCHANGED <<data_files, disk, outputs, sources, idx, asm_file, prev>>

\* a second build runs the script again: same list, same files, the build
\* directory as the last run left it, a fresh env and a fresh log
Rerun ==
  /\ pc = "done"
  /\ ~prev.valid
  /\ prev' = [valid |-> TRUE, outputs |-> outputs, sources |-> sources]
  /\ log' = <<Banner>>
  /\ sources' = <<>>
  /\ idx' = 1
  /\ asm_file' = <<>>
  /\ pc' = "loop"
  /\ UNCHANGED <<data_files, disk, outputs>>

Next ==
  \/ SkipMissing
  \/ ReadFail
  \/ Generate
  \/ WriteFail
  \/ Register
  \/ Complete
  \/ Rerun

Spec == Init /\ [][Next]_vars

----------------------------------------------------------------------------
(* Reading a generated file back, as the assembler does *)

RECURSIVE SplitOn(_, _)
\* the pieces of s between the occurrences of sep
SplitOn(s, sep) ==
  IF \A i \in DOMAIN s : s[i] # sep THEN <<s>>
  ELSE LET k == CHOOSE i \in DOMAIN s : s[i] = sep /\ \A j \in 1..(i - 1) : s[j] # sep
       IN <<SubSeq(s, 1, k - 1)>> \o SplitOn(SubSeq(s, k + 1, Len(s)), sep)

RECURSIVE Flatten(_)
Flatten(ss) == IF ss = <<>> THEN <<>> ELSE Head(ss) \o Flatten(Tail(ss))

Blank == {" ", "    "}

RECURSIVE Strip(_)
\* s without its leading blanks
Strip(s) == IF s # <<>> /\ Head(s) \in Blank THEN Strip(Tail(s)) ELSE s

HexSet == {HexDigits[i] : i \in DOMAIN HexDigits}

DigitValue(c) == CHOOSE d \in 0..15 : HexDigits[d + 1] = c

RECURSIVE HexValue(_)
HexValue(ds) ==
  IF ds = <<>> THEN 0
  ELSE 16 * HexValue(SubSeq(ds, 1, Len(ds) - 1)) + DigitValue(ds[Len(ds)])

\* the value of one operand of a .byte directive, -1 when it is not a literal
ParseLiteral(item) ==
  LET t == Strip(item)
  IN IF /\ Len(t) >= 3
        /\ t[1] = "0" /\ t[2] = "x"
        /\ \A k \in 3..Len(t) : t[k] \in HexSet
     THEN HexValue(SubSeq(t, 3, Len(t)))
     ELSE -1

\* the bytes one source line contributes
LineBytes(line) ==
  LET t == Strip(line)
  IN IF t = <<>> THEN <<>>
     ELSE IF Head(t) = ".byte"
     THEN LET items == SplitOn(Tail(t), ",")
          IN [k \in DOMAIN items |-> ParseLiteral(items[k])]
     ELSE <<-1>>

\* the source lines between the start label and the end label
SpanLines(text, safe_name) ==
  LET lines == SplitOn(text, NL)
      starts == {i \in DOMAIN lines : lines[i] = StartSymbol(safe_name) \o <<":">>}
      ends == {i \in DOMAIN lines : lines[i] = EndSymbol(safe_name) \o <<":">>}
  IN IF Cardinality(starts) # 1 \/ Cardinality(ends) # 1 THEN <<<<"?">>>>
     ELSE SubSeq(lines, (CHOOSE i \in starts : TRUE) + 1, (CHOOSE i \in ends : TRUE) - 1)

\* the bytes of the span [start, end)
SpanBytes(text, safe_name) ==
  LET lines == SpanLines(text, safe_name)
  IN Flatten([k \in DOMAIN lines |-> LineBytes(lines[k])])

\* the .byte lines of the span
ByteLines(text, safe_name) ==
  SelectSeq(SpanLines(text, safe_name), LAMBDA line : Strip(line) # <<>>)

----------------------------------------------------------------------------
(* What the state says about the run *)

JustGenerated == pc = "generated"

CurrentData == disk[Current].data
CurrentSafeName == SafeName(BaseName(Current))
CurrentBytes == SpanBytes(outputs[asm_file], CurrentSafeName)

N == Len(data_files)

Existing == SelectSeq(data_files, LAMBDA p : disk[p].exists)
MissingInputs == SelectSeq(data_files, LAMBDA p : ~disk[p].exists)
AsmFiles(ps) == [k \in DOMAIN ps |-> AsmFile(ps[k])]

Logged(msg) == SelectSeq(log, LAMBDA l : l.msg = msg)
Completed == Logged("Data embedding complete.") # <<>>
Warned == [k \in DOMAIN Logged("  WARNING: File not found: ") |->
             Logged("  WARNING: File not found: ")[k].arg]
\* the paths of the files this run has generated so far
GeneratedInRun ==
  {PathJoin(build_dir, l.arg) : l \in Range(Logged("  Generated: "))}
  \cup (IF JustGenerated THEN {asm_file} ELSE {})

\* the output file holds everything generate_assembly_file writes for some
\* declared input that maps to it
WholeUnit(path) ==
  /\ path \in DOMAIN outputs
  /\ \E i \in DOMAIN data_files :
       /\ AsmFile(data_files[i]) = path
       /\ disk[data_files[i]].readable
       /\ outputs[path] = UnitText(data_files[i])

----------------------------------------------------------------------------
(* C1 *)

\* C1: whenever generate_assembly_file has just written a file for an input
\* of length L, the bytes between the start label and the end label number
\* L + 1 and the last of them is 0x00.
C1_SpanIsDataPlusSentinel ==
  JustGenerated =>
    /\ Len(CurrentBytes) = Len(CurrentData) + 1
    /\ CurrentBytes[Len(CurrentBytes)] = 0

\* a file ending in 0x00 has been emitted, and its span still ends with one
\* more 0x00
C1_Witness ==
  /\ JustGenerated
  /\ Len(CurrentData) = 2
  /\ CurrentData[2] = 0
  /\ CurrentBytes = <<255, 0, 0>>

(* C2 *)

\* C2: whenever a file has just been written, decoding its .byte literals in
\* order and dropping the last one gives back the input bytes.
C2_RoundTrip ==
  JustGenerated =>
    SubSeq(CurrentBytes, 1, Len(CurrentBytes) - 1) = CurrentData

\* an input of more than two full lines, starting at 0xe0 and wrapping
\* through 0xff to 0x00, has been emitted and decodes to itself
C2_Witness ==
  /\ JustGenerated
  /\ Len(CurrentData) > 2 * LineWidth
  /\ CurrentData[1] = 224
  /\ SubSeq(CurrentBytes, 1, Len(CurrentBytes) - 1) = CurrentData

(* C10 *)

\* a .byte line holding exactly c literals, each 0x and two lowercase hex
\* digits, one comma (and a space) between neighbours, none at the end
IsByteLine(line, c) ==
  /\ Len(line) = 3 + 4 * c + 2 * (c - 1)
  /\ SubSeq(line, 1, 3) = <<"    ", ".byte", " ">>
  /\ \A j \in 0..(c - 1) :
       LET off == 3 + 6 * j
       IN /\ line[off + 1] = "0" /\ line[off + 2] = "x"
          /\ line[off + 3] \in HexSet /\ line[off + 4] \in HexSet
          /\ j < c - 1 => line[off + 5] = "," /\ line[off + 6] = " "
  /\ Cardinality({k \in DOMAIN line : line[k] = ","}) = c - 1
  /\ line[Len(line)] # ","

\* ceil(L / 16)
DataLineCount(L) == (L + LineWidth - 1) \div LineWidth

\* C10: whenever a file has just been written for an input of length L, its
\* span holds ceil(L/16) data lines, each but the last of 16 literals, the
\* last of the remaining ones, and then one line with the sentinel 0x00.
C10_LineLayout ==
  JustGenerated =>
    LET lines == ByteLines(outputs[asm_file], CurrentSafeName)
        L == Len(CurrentData)
        n == DataLineCount(L)
    IN /\ Len(lines) = n + 1
       /\ \A k \in 1..n :
            IsByteLine(lines[k], IF k < n THEN LineWidth ELSE L - LineWidth * (n - 1))
       /\ lines[n + 1] = <<"    ", ".byte", " ", "0", "x", "0", "0">>

\* an input of two full lines and one more byte has been laid out on three
\* data lines and the sentinel line
C10_Witness ==
  /\ JustGenerated
  /\ Len(CurrentData) = 2 * LineWidth + 1
  /\ Len(ByteLines(outputs[asm_file], CurrentSafeName)) = 4
  /\ IsByteLine(ByteLines(outputs[asm_file], CurrentSafeName)[3], 1)

(* C3 *)

\* C3: a missing input never ends the run (the run is only ever aborted
\* at an input that exists); when the run completes, every missing input
\* has its warning, the emitted units are the declared inputs that exist,
\* in order, and with exactly one input missing they number N - 1.
C3_MissingIsSkipped ==
  /\ pc = "aborted" => idx <= N /\ disk[Current].exists
  /\ pc = "done" =>
       /\ Warned = MissingInputs
       /\ sources = AsmFiles(Existing)
       /\ Len(MissingInputs) = 1 => Len(sources) = N - 1

\* a run over three inputs whose first is the only missing one has
\* completed, with the warning and with both later inputs emitted
C3_Witness ==
  /\ pc = "done"
  /\ N = 3
  /\ ~disk[data_files[1]].exists
  /\ Len(MissingInputs) = 1
  /\ Warned = <<data_files[1]>>
  /\ Len(sources) = N - 1
  /\ sources[N - 1] = AsmFile(data_files[N])

(* C4 *)

\* two distinct declared inputs with the same symbol_base
HasCollision ==
  \E i, j \in DOMAIN data_files :
    /\ data_files[i] # data_files[j]
    /\ SafeName(BaseName(data_files[i])) = SafeName(BaseName(data_files[j]))

\* C4: while the declared list holds two distinct inputs with the same
\* symbol_base, no output file has been written and none is registered.
C4_CollisionRejected ==
  HasCollision => DOMAIN outputs = {} /\ sources = <<>>

(* C5 *)

Letters ==
  {"a","b","c","d","e","f","g","h","i","j","k","l","m",
   "n","o","p","q","r","s","t","u","v","w","x","y","z",
   "A","B","C","D","E","F","G","H","I","J","K","L","M",
   "N","O","P","Q","R","S","T","U","V","W","X","Y","Z"}
IdentChars == Letters \cup {"0","1","2","3","4","5","6","7","8","9","_"}

\* C5: whenever a file has just been written, the symbol_base its labels
\* are built from consists only of characters in [A-Za-z0-9_].
C5_SymbolIsIdentifier ==
  JustGenerated => Range(CurrentSafeName) \subseteq IdentChars

(* C6 *)

\* the declared inputs the run has generated a file for
Emitted == {i \in DOMAIN data_files : i < idx /\ disk[data_files[i]].exists}

\* C6: any two distinct declared paths the run has emitted were written to
\* different output paths.
C6_DistinctOutputPaths ==
  \A i, j \in Emitted :
    data_files[i] # data_files[j] => AsmFile(data_files[i]) # AsmFile(data_files[j])

(* C7 *)

\* C7: when a second run over the same list and files completes, every
\* output file holds the text the first run left in it, no file has come or
\* gone, and the same units were emitted.
C7_RerunIsIdempotent ==
  pc = "done" /\ prev.valid =>
    /\ outputs = prev.outputs
    /\ sources = prev.sources

\* a second run that emitted two units has completed
C7_Witness ==
  /\ pc = "done"
  /\ prev.valid
  /\ Len(sources) = 2
  /\ sources[1] # sources[2]
  /\ outputs = prev.outputs

(* C8 *)

\* C8: every registered path was generated in this run, and until the run
\* is aborted the registered file holds the whole text of a declared input;
\* at the completion line the registered paths are the generated paths.
C8_Handoff ==
  /\ Range(sources) \subseteq GeneratedInRun
  /\ pc # "aborted" => \A p \in Range(sources) : WholeUnit(p)
  /\ JustGenerated => WholeUnit(asm_file) /\ Len(sources) = Len(Logged("  Generated: "))
  /\ pc = "done" => Completed /\ Range(sources) = GeneratedInRun

\* a run that generated two different files has completed with both
\* registered
C8_Witness ==
  /\ pc = "done"
  /\ Cardinality(GeneratedInRun) = 2
  /\ Range(sources) = GeneratedInRun

(* C9 *)

\* the declared inputs before the current one that exist
EarlierExisting ==
  SelectSeq(SubSeq(data_files, 1, idx - 1), LAMBDA p : disk[p].exists)

\* C9: the loop never gets past an input that exists but cannot be read,
\* and a file left half written is only ever found in an aborted run; an
\* aborted run stopped at an existing input, registered exactly the units
\* before it, printed no completion line and takes no further step.
C9_IOFailureIsFatal ==
  /\ \A i \in DOMAIN data_files :
       i < idx => ~(disk[data_files[i]].exists /\ ~disk[data_files[i]].readable)
  /\ pc # "aborted" => \A p \in DOMAIN outputs : WholeUnit(p)
  /\ pc = "aborted" =>
       /\ idx <= N /\ disk[Current].exists
       /\ sources = AsmFiles(EarlierExisting)
       /\ Len(log) = idx
       /\ ~Completed
       /\ ~ENABLED Next

\* a run was aborted at an unreadable second input: the first is
\* registered, the second is not, and the third, though readable, was
\* neither written nor registered
C9_Witness ==
  /\ pc = "aborted"
  /\ idx = 2 /\ N = 3
  /\ ~disk[Current].readable
  /\ disk[data_files[3]].readable
  /\ sources = <<AsmFile(data_files[1])>>
  /\ AsmFile(Current) \notin DOMAIN outputs
  /\ AsmFile(data_files[3]) \notin DOMAIN outputs

====
